---- MODULE Spec2Model ----
(***************************************************************************)
(* Model of the embedding gateway in src/main.py: one FastAPI application  *)
(* with a lifespan that loads one SentenceTransformer into the module-     *)
(* level registry `models`, a bearer-token dependency `verify_api_key`,    *)
(* the POST /v1/embeddings handler `embedding` and the GET / and           *)
(* GET /healthz handler `healthz`.                                         *)
(*                                                                         *)
(* Python's Optional[T] is modelled as a set with at most one element:     *)
(* None is {} and a value x is {x}.  JSON / Python values are tagged       *)
(* records (t = "str", "num", "null" or "list").  Embedding vectors are    *)
(* sequences of integers standing for the floats the model returns.        *)
(***************************************************************************)
EXTENDS Integers, Sequences, FiniteSets, TLC

VARIABLES
    phase,       \* "starting" | "serving" | "failed": the lifespan's position
    models,      \* the module-level registry: model name -> loaded instance
    model_name,  \* os.getenv("MODEL", "all-MiniLM-L6-v2"), read at import
    api_key,     \* os.getenv("API_KEY"), Optional[str], read at import
    pydantic,    \* "v1" | "v2": the installed pydantic major version (not pinned)
    requests     \* the requests in flight, one slot per connection

vars == <<phase, models, model_name, api_key, pydantic, requests>>

\* Longest input list a client sends.
MaxLen == 3

\* Number of connections a client may have open at once in SpecConc.
NReq == 2

----------------------------------------------------------------------------
(* Values *)

None == {}
Some(x) == {x}
The(opt) == CHOOSE x \in opt : TRUE

JStr(s) == [t |-> "str", s |-> s]
JNum(n) == [t |-> "num", n |-> n]
JNull == [t |-> "null"]
JList(xs) == [t |-> "list", xs |-> xs]

SeqsUpTo(S, n) == UNION {[1..k -> S] : k \in 0..n}

DefaultModel == "all-MiniLM-L6-v2"

\* bool(x) of an Optional[str]: None and "" are falsy.
Truthy(opt) == opt # None /\ opt # Some("")

----------------------------------------------------------------------------
(* The embedding model backend *)

\* SentenceTransformer(name, trust_remote_code=True): the instance a name loads.
\* Its embedding dimension depends on the model.
SentenceTransformer(name) ==
    [name |-> name, dim |-> IF name = DefaultModel THEN 3 ELSE 2]

\* A number the backend derives from the text; distinct texts differ.
TextCode(s) ==
    CASE s = "" -> 0
      [] s = "a" -> 1
      [] s = "b" -> 2
      [] s = "5" -> 5
      [] OTHER -> 9

\* model.encode(text): a vector of the model's dimension, fixed by model and text.
encode(model, text) == [i \in 1..model.dim |-> 10 * TextCode(text) + i + model.dim]

----------------------------------------------------------------------------
(* Responses *)

HTTPException(status_code, detail, headers) ==
    [status |-> status_code, headers |-> headers, body |-> [detail |-> detail]]

JSONResponse(body) == [status |-> 200, headers |-> {}, body |-> body]

EmbeddingData(embedding, index, object) ==
    [embedding |-> embedding, index |-> index, object |-> object]

Usage(prompt_tokens, total_tokens) ==
    [prompt_tokens |-> prompt_tokens, total_tokens |-> total_tokens]

EmbeddingResponse(data, model, usage, object) ==
    [data |-> data, model |-> model, usage |-> usage, object |-> object]

BadInput == "input needs to be an array of strings or a string"

----------------------------------------------------------------------------
(* Authentication: security = HTTPBearer(auto_error=False), verify_api_key *)

Lower(s) ==
    CASE s = "Bearer" -> "bearer"
      [] s = "Basic" -> "basic"
      [] OTHER -> s

\* HTTPBearer(auto_error=False) applied to the Authorization header: the
\* credentials, or None when the header is missing, has no scheme or no
\* parameter, or names a scheme other than bearer.
HTTPBearer(authorization) ==
    IF authorization = None THEN None
    ELSE LET h == The(authorization) IN
         IF h.scheme = "" \/ h.param = "" THEN None
         ELSE IF Lower(h.scheme) # "bearer" THEN None
         ELSE Some([scheme |-> h.scheme, credentials |-> h.param])

Unauthorized(detail) ==
    HTTPException(401, detail, {<<"WWW-Authenticate", "Bearer">>})

\* Faulty variant of KeyConfigured: the test `if api_key is not None`.
KeyConfiguredIfSet == api_key # None

\* `if api_key:`
KeyConfigured == Truthy(api_key)

\* verify_api_key(credentials): raises 401 or returns the dependency's value.
verify_api_key(credentials) ==
    IF KeyConfigured THEN
        IF credentials = None THEN
            [raised |-> TRUE, resp |-> Unauthorized("API key required")]
        ELSE IF The(credentials).credentials # The(api_key) THEN
            [raised |-> TRUE, resp |-> Unauthorized("Invalid API key")]
        ELSE [raised |-> FALSE, value |-> Some(The(credentials).credentials)]
    ELSE [raised |-> FALSE, value |-> None]

----------------------------------------------------------------------------
(* Request body validation: class EmbeddingRequest(BaseModel) *)

\* str(n) for the numbers a client sends.
NumStr(n) == IF n = 5 THEN "5" ELSE "0"

\* A field annotated `str`: pydantic 1 coerces numbers with str(), pydantic 2
\* accepts strings only.  None stands for a validation error.
StrField(v) ==
    IF v.t = "str" THEN Some(v)
    ELSE IF v.t = "num" /\ pydantic = "v1" THEN Some(JStr(NumStr(v.n)))
    ELSE None

\* A field annotated `List[str]`.
ListStrField(v) ==
    IF v.t # "list" THEN None
    ELSE IF \A i \in 1..Len(v.xs) : StrField(v.xs[i]) # None
         THEN Some(JList([i \in 1..Len(v.xs) |-> The(StrField(v.xs[i]))]))
         ELSE None

\* input: Union[str, List[str]]
InputField(v) == IF StrField(v) # None THEN StrField(v) ELSE ListStrField(v)

\* EmbeddingRequest parsed from the JSON body; `model` defaults to model_name.
EmbeddingRequest(body) ==
    LET input == InputField(body.input) IN
    IF input = None THEN None
    ELSE Some([input |-> The(input),
               model |-> IF body.model = None THEN model_name ELSE The(body.model)])

\* FastAPI's answer to a body that fails validation.
RequestValidationError ==
    [status |-> 422, headers |-> {}, body |-> [detail |-> "validation error"]]

----------------------------------------------------------------------------
(* POST /v1/embeddings: async def embedding(item, api_key) *)

\* Faulty variant of ResponseModel: echo the requested model.
ResponseModelEcho(item) == item.model

\* model=model_name in both EmbeddingResponse constructions.
ResponseModel(item) == model_name

\* Faulty variant of ScalarTokens: count the input, not the vector.
ScalarTokensOne(vectors) == 1

\* tokens = len(vectors)
ScalarTokens(vectors) == Len(vectors)

\* Faulty variant of Accumulate: `tokens = len(vectors)`.
AccumulateLast(tokens, vectors) == Len(vectors)

\* tokens += len(vectors)
Accumulate(tokens, vectors) == tokens + Len(vectors)

\* Faulty variant of IsList: an empty list is not taken as a list.
IsNonEmptyList(v) == v.t = "list" /\ Len(v.xs) > 0

\* isinstance(item.input, list)
IsList(v) == v.t = "list"

\* isinstance(x, str)
IsStr(v) == v.t = "str"

\* The scalar branch: one encode call, one EmbeddingData at index 0.
ScalarBranch(model, item) ==
    LET vectors == encode(model, item.input.s)
        tokens == ScalarTokens(vectors)
    IN [raised |-> FALSE,
        calls |-> <<item.input.s>>,
        resp |-> JSONResponse(EmbeddingResponse(
                     <<EmbeddingData(vectors, 0, "embedding")>>,
                     ResponseModel(item),
                     Usage(tokens, tokens),
                     "list"))]

\* for index, text_input in enumerate(item.input): the loop from position
\* `index` (0-based) on, with the embeddings, the token sum and the encode
\* calls made so far.  A non-string element raises and ends the loop.
RECURSIVE ForLoop(_, _, _, _, _, _)
ForLoop(model, input, index, embeddings, tokens, calls) ==
    IF index >= Len(input)
    THEN [raised |-> FALSE, embeddings |-> embeddings, tokens |-> tokens,
          calls |-> calls]
    ELSE LET text_input == input[index + 1] IN
         IF ~IsStr(text_input)
         THEN [raised |-> TRUE, embeddings |-> embeddings, tokens |-> tokens,
               calls |-> calls]
         ELSE LET vectors == encode(model, text_input.s) IN
              ForLoop(model, input, index + 1,
                      Append(embeddings,
                             EmbeddingData(vectors, index, "embedding")),
                      Accumulate(tokens, vectors),
                      Append(calls, text_input.s))

\* The list branch.
ListBranch(model, item) ==
    LET loop == ForLoop(model, item.input.xs, 0, <<>>, 0, <<>>) IN
    IF loop.raised
    THEN [raised |-> TRUE, calls |-> loop.calls,
          resp |-> HTTPException(400, BadInput, {})]
    ELSE [raised |-> FALSE, calls |-> loop.calls,
          resp |-> JSONResponse(EmbeddingResponse(
                       loop.embeddings,
                       ResponseModel(item),
                       Usage(loop.tokens, loop.tokens),
                       "list"))]

\* An exception no handler catches (the KeyError of models[model_name]).
InternalServerError ==
    [status |-> 500, headers |-> {}, body |-> [detail |-> "Internal Server Error"]]

\* Faulty variant of ModelsAfterEmbedding: load the requested model on demand.
ModelsLoadRequested(item) ==
    IF item.model \in DOMAIN models THEN models
    ELSE models @@ (item.model :> SentenceTransformer(item.model))

\* The registry after the handler ran: the handler only reads it.
ModelsAfterEmbedding(item) == models

\* embedding(item): the response or the exception, and the texts encoded.
embedding(item) ==
    IF model_name \notin DOMAIN models
    THEN [raised |-> TRUE, calls |-> <<>>, resp |-> InternalServerError]
    ELSE LET model == models[model_name] IN
         IF IsStr(item.input) THEN ScalarBranch(model, item)
         ELSE IF IsList(item.input) THEN ListBranch(model, item)
         ELSE [raised |-> TRUE, calls |-> <<>>,
               resp |-> HTTPException(400, BadInput, {})]

\* healthz()
healthz == JSONResponse([status |-> "ok"])

----------------------------------------------------------------------------
(* Requests in flight *)

Idle == [method |-> "idle"]

\* A request as received: nothing has run for it yet.
NewRequest(d) ==
    [method |-> d.method, path |-> d.path, authorization |-> d.authorization,
     body |-> d.body,
     pc |-> 1,          \* position in the route's pipeline
     item |-> None,     \* the validated EmbeddingRequest
     calls |-> <<>>,    \* the texts model.encode was called with for this request
     result |-> None,   \* the handler's return value
     resp |-> None]     \* the response, once decided

IsPost(q) == q.method = "POST" /\ q.path = "/v1/embeddings"

IsGet(q) == q.method = "GET" /\ q.path \in {"/", "/healthz"}

\* Faulty variant of PostPipeline: the dependency resolved after the handler ran.
PostPipelineAuthLast == <<"validate", "handle", "auth">>

\* @app.post("/v1/embeddings") with item: EmbeddingRequest and
\* Depends(verify_api_key): the dependency is solved first, then the body is
\* validated, then the handler is called.
PostPipeline == <<"auth", "validate", "handle">>

\* Faulty variant of GetPipeline: the health route behind verify_api_key.
GetPipelineAuth == <<"auth", "handle">>

\* @app.get("/") and @app.get("/healthz"): no dependency, no body.
GetPipeline == <<"handle">>

Pipeline(q) == IF IsPost(q) THEN PostPipeline ELSE GetPipeline

Stage(q) == IF q = Idle \/ q.resp # None THEN "none" ELSE Pipeline(q)[q.pc]

\* The stage succeeded: go on, or answer with the handler's result.
Proceed(q) ==
    IF q.pc = Len(Pipeline(q)) THEN [q EXCEPT !.resp = q.result]
    ELSE [q EXCEPT !.pc = @ + 1]

\* The stage raised: the exception is the response.
Abort(q, resp) == [q EXCEPT !.resp = Some(resp)]

----------------------------------------------------------------------------
(* What clients send *)

ModelNames == {DefaultModel, "other-model"}

ApiKeys == {None, Some(""), Some("secret")}

Bearer(token) == Some([scheme |-> "Bearer", param |-> token])

Authorizations ==
    {None, Bearer("secret"), Bearer("wrong"), Bearer(""),
     Some([scheme |-> "Basic", param |-> "secret"])}

Elems == {JStr("a"), JStr("b"), JNum(5)}

Inputs ==
    {JStr("a"), JStr("b"), JStr(""), JNum(5), JNull}
        \cup {JList(xs) : xs \in SeqsUpTo(Elems, MaxLen)}

ModelFields == {None} \cup {Some(n) : n \in ModelNames}

Post(authorization, input, model) ==
    [method |-> "POST", path |-> "/v1/embeddings",
     authorization |-> authorization,
     body |-> Some([input |-> input, model |-> model])]

Get(path, authorization) ==
    [method |-> "GET", path |-> path, authorization |-> authorization,
     body |-> None]

\* Every request of the sequential specification.
Requests ==
    {Post(a, i, m) : a \in Authorizations, i \in Inputs, m \in ModelFields}
        \cup {Get(p, a) : p \in {"/", "/healthz"}, a \in Authorizations}

\* The requests of the concurrent specification.
ConcRequests ==
    {Post(a, i, m) : a \in {None, Bearer("secret")},
                     i \in {JStr("a"), JList(<<JStr("a"), JNum(5)>>)},
                     m \in {None, Some("other-model")}}
        \cup {Get(p, None) : p \in {"/", "/healthz"}}

----------------------------------------------------------------------------
(* Startup: async def lifespan(app) *)

\* Faulty variant of PhaseAfterLifespan: a failed load is swallowed.
PhaseServingAnyway(loaded) == "serving"

\* The application serves once the lifespan reached its yield; an exception
\* in it ends the process.
PhaseAfterLifespan(loaded) == IF loaded THEN "serving" ELSE "failed"

\* models[model_name] = SentenceTransformer(model_name, ...), which may raise.
Startup ==
    /\ phase = "starting"
    /\ \E loaded \in BOOLEAN :
         /\ models' = IF loaded
                      THEN (model_name :> SentenceTransformer(model_name)) @@ models
                      ELSE models
         /\ phase' = PhaseAfterLifespan(loaded)
    /\ UNCHANGED <<model_name, api_key, pydantic, requests>>

----------------------------------------------------------------------------
(* Request handling *)

\* A request arrives on a free connection of the serving application.
Receive(r, d) ==
    /\ phase = "serving"
    /\ requests[r] = Idle
    /\ requests' = [requests EXCEPT ![r] = NewRequest(d)]
    /\ UNCHANGED <<phase, models, model_name, api_key, pydantic>>

\* The dependency verify_api_key(Security(security)) is solved.
VerifyApiKey(r) ==
    LET q == requests[r]
        out == verify_api_key(HTTPBearer(q.authorization))
    IN /\ Stage(q) = "auth"
       /\ requests' = [requests EXCEPT
                         ![r] = IF out.raised THEN Abort(q, out.resp)
                                ELSE Proceed(q)]
       /\ UNCHANGED <<phase, models, model_name, api_key, pydantic>>

\* The JSON body is validated into item: EmbeddingRequest.
ValidateBody(r) ==
    LET q == requests[r]
        item == EmbeddingRequest(The(q.body))
    IN /\ Stage(q) = "validate"
       /\ requests' = [requests EXCEPT
                         ![r] = IF item = None
                                THEN Abort(q, RequestValidationError)
                                ELSE Proceed([q EXCEPT !.item = item])]
       /\ UNCHANGED <<phase, models, model_name, api_key, pydantic>>

\* The handler embedding(item, api_key) runs, start to end.
Embedding(r) ==
    LET q == requests[r]
        out == embedding(The(q.item))
        ran == [q EXCEPT !.calls = out.calls]
    IN /\ Stage(q) = "handle"
       /\ IsPost(q)
       /\ requests' = [requests EXCEPT
                         ![r] = IF out.raised THEN Abort(ran, out.resp)
                                ELSE Proceed([ran EXCEPT !.result = Some(out.resp)])]
       /\ models' = ModelsAfterEmbedding(The(q.item))
       /\ UNCHANGED <<phase, model_name, api_key, pydantic>>

\* The handler healthz() runs.
Healthz(r) ==
    LET q == requests[r] IN
    /\ Stage(q) = "handle"
    /\ IsGet(q)
    /\ requests' = [requests EXCEPT
                      ![r] = Proceed([q EXCEPT !.result = Some(healthz)])]
    /\ UNCHANGED <<phase, models, model_name, api_key, pydantic>>

\* The response is sent and the request's objects are dropped.
Respond(r) ==
    /\ requests[r] # Idle
    /\ requests[r].resp # None
    /\ requests' = [requests EXCEPT ![r] = Idle]
    /\ UNCHANGED <<phase, models, model_name, api_key, pydantic>>

----------------------------------------------------------------------------
(* Specifications *)

Config ==
    /\ phase = "starting"
    /\ models = <<>>
    /\ model_name \in ModelNames
    /\ api_key \in ApiKeys
    /\ pydantic \in {"v1", "v2"}

\* One request at a time, every request of Requests.
Init == Config /\ requests = [r \in {1} |-> Idle]

Next ==
    \/ Startup
    \/ \E r \in DOMAIN requests, d \in Requests : Receive(r, d)
    \/ \E r \in DOMAIN requests : VerifyApiKey(r)
    \/ \E r \in DOMAIN requests : ValidateBody(r)
    \/ \E r \in DOMAIN requests : Embedding(r)
    \/ \E r \in DOMAIN requests : Healthz(r)
    \/ \E r \in DOMAIN requests : Respond(r)

Spec == Init /\ [][Next]_vars

\* NReq requests in flight, interleaved at every stage boundary.
InitConc == Config /\ requests = [r \in 1..NReq |-> Idle]

NextConc ==
    \/ Startup
    \/ \E r \in DOMAIN requests, d \in ConcRequests : Receive(r, d)
    \/ \E r \in DOMAIN requests : VerifyApiKey(r)
    \/ \E r \in DOMAIN requests : ValidateBody(r)
    \/ \E r \in DOMAIN requests : Embedding(r)
    \/ \E r \in DOMAIN requests : Healthz(r)
    \/ \E r \in DOMAIN requests : Respond(r)

SpecConc == InitConc /\ [][NextConc]_vars

----------------------------------------------------------------------------
(* Vocabulary of the properties *)

Slots == DOMAIN requests

\* The request in slot r has its response decided.
Answered(r) == requests[r] # Idle /\ requests[r].resp # None

AnsweredPost(r) == Answered(r) /\ IsPost(requests[r])

Response(r) == The(requests[r].resp)

SentInput(r) == The(requests[r].body).input

SentModel(r) == The(requests[r].body).model

\* A string, or a list made up only of strings.
ListOfStrings(v) == v.t = "list" /\ \A i \in 1..Len(v.xs) : v.xs[i].t = "str"

ValidInput(v) == v.t = "str" \/ ListOfStrings(v)

\* The token of an `Authorization: Bearer <token>` header, if the request has one.
BearerToken(q) ==
    IF q.authorization # None
       /\ The(q.authorization).scheme = "Bearer"
       /\ The(q.authorization).param # ""
    THEN Some(The(q.authorization).param)
    ELSE None

\* A non-empty API key is configured.
KeySet == api_key # None /\ The(api_key) # ""

\* The request passes the service's authentication rule.
Authorised(q) == ~KeySet \/ BearerToken(q) = api_key

\* The loaded instance of the configured model.
Loaded == SentenceTransformer(model_name)

RECURSIVE SumLen(_)
SumLen(data) ==
    IF data = <<>> THEN 0
    ELSE Len(data[1].embedding) + SumLen(Tail(data))

----------------------------------------------------------------------------
(* Properties *)

\* C1: a POST /v1/embeddings request with valid input is answered 401 with a
\* WWW-Authenticate: Bearer header exactly when a non-empty API key is
\* configured and the request has no bearer credentials or a token different
\* from the key; in every other case it is answered 200.
C1_AuthIff ==
    \A r \in Slots :
        AnsweredPost(r) /\ ValidInput(SentInput(r)) =>
            LET q == requests[r]
                mustReject == KeySet /\ (BearerToken(q) = None
                                         \/ The(BearerToken(q)) # The(api_key))
            IN /\ Response(r).status = 401 <=> mustReject
               /\ Response(r).status = 401 =>
                      <<"WWW-Authenticate", "Bearer">> \in Response(r).headers
               /\ ~mustReject => Response(r).status = 200

\* A wrong token was rejected under a configured key.
C1_Witness ==
    \E r \in Slots :
        /\ AnsweredPost(r) /\ ValidInput(SentInput(r))
        /\ api_key = Some("secret")
        /\ requests[r].authorization = Bearer("wrong")
        /\ Response(r).status = 401

\* C2: an authorised request whose input is a list of strings s0..sn is
\* answered 200 with n+1 data items, data[i].index = i, data[i].embedding the
\* encoding of si, and total_tokens the sum of the embeddings' lengths.
C2_ListResponse ==
    \A r \in Slots :
        AnsweredPost(r) /\ Authorised(requests[r]) /\ ListOfStrings(SentInput(r)) =>
            LET xs == SentInput(r).xs
                body == Response(r).body
            IN /\ Response(r).status = 200
               /\ Len(body.data) = Len(xs)
               /\ \A i \in 1..Len(xs) :
                      /\ body.data[i].index = i - 1
                      /\ body.data[i].embedding = encode(Loaded, xs[i].s)
               /\ body.usage.total_tokens = SumLen(body.data)

\* A list of two different strings was answered.
C2_Witness ==
    \E r \in Slots :
        /\ AnsweredPost(r) /\ Authorised(requests[r])
        /\ SentInput(r) = JList(<<JStr("b"), JStr("a")>>)
        /\ Response(r).status = 200

\* C3: an authorised request whose input is a single string s is answered 200
\* with exactly one EmbeddingData, at index 0, holding the encoding of s, and
\* prompt_tokens and total_tokens both equal to the length of that vector.
C3_ScalarResponse ==
    \A r \in Slots :
        AnsweredPost(r) /\ Authorised(requests[r]) /\ SentInput(r).t = "str" =>
            LET body == Response(r).body IN
            /\ Response(r).status = 200
            /\ Len(body.data) = 1
            /\ body.data[1].index = 0
            /\ body.data[1].embedding = encode(Loaded, SentInput(r).s)
            /\ body.usage.prompt_tokens = Len(body.data[1].embedding)
            /\ body.usage.total_tokens = Len(body.data[1].embedding)

\* A single string was answered.
C3_Witness ==
    \E r \in Slots :
        /\ AnsweredPost(r) /\ Authorised(requests[r])
        /\ SentInput(r) = JStr("a")
        /\ Response(r).status = 200

\* C4: an authorised request whose input is neither a string nor a list made
\* up only of strings is answered 400 with the message "input needs to be an
\* array of strings or a string".
C4_BadInputIs400 ==
    \A r \in Slots :
        AnsweredPost(r) /\ Authorised(requests[r]) /\ ~ValidInput(SentInput(r)) =>
            /\ Response(r).status = 400
            /\ Response(r).body.detail = BadInput

\* C5: every GET /healthz and GET / request is answered 200 with the body
\* {"status": "ok"}, whatever the API key and the request's credentials.
C5_Health ==
    \A r \in Slots :
        Answered(r) /\ IsGet(requests[r]) =>
            /\ Response(r).status = 200
            /\ Response(r).body = [status |-> "ok"]

\* A health request without credentials was answered under a configured key.
C5_Witness ==
    \E r \in Slots :
        /\ Answered(r) /\ IsGet(requests[r])
        /\ api_key = Some("secret")
        /\ requests[r].authorization \in {None, Bearer("wrong")}

\* C6: two authorised requests with the same input that differ only in the
\* model field get identical responses; a 200 response names the configured
\* model and holds the loaded instance's encoding; naming an unloaded model
\* is not an error.
C6_ModelFieldIgnored ==
    /\ \A r1, r2 \in Slots :
           /\ AnsweredPost(r1) /\ AnsweredPost(r2)
           /\ Authorised(requests[r1]) /\ Authorised(requests[r2])
           /\ SentInput(r1) = SentInput(r2)
           => Response(r1) = Response(r2)
    /\ \A r \in Slots :
           AnsweredPost(r) /\ Authorised(requests[r]) /\ SentInput(r).t = "str" =>
               /\ Response(r).status = 200
               /\ Response(r).body.model = model_name
               /\ Response(r).body.data[1].embedding = encode(Loaded, SentInput(r).s)

\* Two answered requests with the same input, one naming an unloaded model.
C6_Witness ==
    \E r1, r2 \in Slots :
        /\ AnsweredPost(r1) /\ AnsweredPost(r2)
        /\ Authorised(requests[r1]) /\ Authorised(requests[r2])
        /\ SentInput(r1) = JStr("a") /\ SentInput(r2) = JStr("a")
        /\ SentModel(r1) = None
        /\ SentModel(r2) = Some("other-model")
        /\ model_name = DefaultModel
        /\ Response(r2).status = 200

\* C7: encode is called for a request only after its authentication check
\* passed; a request answered 401 has had no encode call.
C7_AuthBeforeEncode ==
    \A r \in Slots :
        requests[r] # Idle /\ IsPost(requests[r]) =>
            /\ requests[r].calls # <<>> => Authorised(requests[r])
            /\ Answered(r) /\ Response(r).status = 401 => requests[r].calls = <<>>

\* One request was answered 401 while encode ran for another.
C7_Witness ==
    \E r1, r2 \in Slots :
        /\ AnsweredPost(r1) /\ Response(r1).status = 401
        /\ requests[r2] # Idle /\ requests[r2].calls # <<>>

\* C8: a request is in flight or answered only when startup has stored the
\* configured model in the registry; once loading has failed the process
\* holds no request and never comes to serve.
C8_StartupFirst ==
    /\ [](/\ (\E r \in Slots : requests[r] # Idle) =>
                phase = "serving" /\ model_name \in DOMAIN models
          /\ phase = "failed" => \A r \in Slots : requests[r] = Idle)
    /\ [][phase = "failed" => phase' = "failed"]_vars

\* Loading failed at startup.
C8_Witness == phase = "failed" /\ model_name \notin DOMAIN models

\* C9: after startup the registry holds exactly one entry, keyed by the
\* configured model name and mapping to the instance loaded at startup,
\* whatever requests have been and are being handled.
C9_RegistryFixed ==
    phase = "serving" =>
        /\ DOMAIN models = {model_name}
        /\ models[model_name] = Loaded

\* A request naming another model was answered 200 beside one answered 401.
C9_Witness ==
    /\ phase = "serving"
    /\ \E r1, r2 \in Slots :
        /\ AnsweredPost(r1) /\ Response(r1).status = 200
        /\ SentModel(r1) = Some("other-model") /\ model_name # "other-model"
        /\ AnsweredPost(r2) /\ Response(r2).status = 401

\* C10: an authorised request whose input is the empty list is answered 200
\* with no data, prompt_tokens = total_tokens = 0, the configured model name
\* and object "list", and encode is not called for it.
C10_EmptyList ==
    \A r \in Slots :
        AnsweredPost(r) /\ Authorised(requests[r]) /\ SentInput(r) = JList(<<>>) =>
            /\ Response(r).status = 200
            /\ Response(r).body =
                   EmbeddingResponse(<<>>, model_name, Usage(0, 0), "list")
            /\ requests[r].calls = <<>>

\* An empty list was answered.
C10_Witness ==
    \E r \in Slots :
        /\ AnsweredPost(r) /\ Authorised(requests[r])
        /\ SentInput(r) = JList(<<>>)
        /\ Response(r).status = 200

====
